---- MODULE Spec2Model ----
(***************************************************************************)
(* Discriminative RBM (src/drbm.py): the graph that get_cost_updates       *)
(* builds once, and the calls of the compiled train_rbm function.          *)
(*                                                                         *)
(* Matrices are sequences of rows; a row is a sequence of numbers.  The    *)
(* real-valued pre-activations and means are kept as terms that name the   *)
(* operation and its arguments; Bernoulli samples range over their whole   *)
(* support (a sigmoid mean is never 0 or 1).  Parameter tensors are kept   *)
(* as the number of updates applied to them.  Python errors that the       *)
(* source decides by itself (a call with too few arguments, an index into  *)
(* an empty chain, operands with different row counts) are modelled;       *)
(* what the theano and numpy objects do beyond that is not.                *)
(***************************************************************************)
EXTENDS Integers, Sequences, FiniteSets, TLC

VARIABLES
    cfg,            \* arguments of get_cost_updates: persistent, neglab, k, batch
    phase,          \* "new" | "built" (updates returned) | "failed" (raised)
    err,            \* the exception that ended the build or the call
    chain_start,    \* symbolic seed of the chain: "ph_sample" | "persistent"
    chain_lab_start,\* symbolic label seed: "input_label" | "neglab"
    neg_labs,       \* the shared variable sample_lab_given_h returned
    gparams,        \* per parameter: the graph nodes its gradient flows through
    updates,        \* keys of the update dictionary
    monitoring_cost,\* expression returned as the monitoring cost
    params,         \* parameter tensors: updates applied, values the last
                    \* gradient was taken at, shape
    persistent,     \* persistent hidden-chain buffer
    neglab,         \* negative-label buffer
    pc,             \* position inside one train_rbm call
    calls,          \* completed train_rbm calls
    input,          \* minibatch features of the running call
    input_label,    \* minibatch labels of the running call
    ph_sample,      \* positive-phase hidden sample of the running call
    steps,          \* outputs of the gibbs_hvh steps of the running call
    score,          \* what the cost of the running call read
    applied,        \* what the last applied update set did
    report,         \* monitoring value the last call returned
    lab,            \* a stand-alone run of sample_lab_given_h
    rng,            \* draws made by numpy_rng and theano_rng, and their uses
    bit_i_idx,      \* flip index of the pseudo-likelihood cost (-1: none yet)
    vis_scan        \* the scan over gibbs_vhv that test_drbm builds for sampling

vars == <<cfg, phase, err, chain_start, chain_lab_start, neg_labs, gparams,
          updates, monitoring_cost, params, persistent, neglab, pc, calls,
          input, input_label, ph_sample, steps, score, applied, report, lab,
          rng, bit_i_idx, vis_scan>>

buildVars == <<phase, err, chain_start, chain_lab_start, neg_labs, gparams,
               updates, monitoring_cost>>
callVars == <<params, persistent, pc, calls, input, input_label, ph_sample,
              steps, score, applied, report>>

----------------------------------------------------------------------------
\* Bounds of the model.
NVisible == 1
NHidden == 1
NLabel == 2
MaxK == 2
MaxCalls == 2
SmallBatch == 2
NBatches == 2
Scale == 10

\* Program constants.
LabBatch == 20
FreeEnergyArity == 2
PseudoLikelihoodFreeEnergyArgs == 1
SampleHGivenVArity == 2
GibbsVhvSampleHArgs == 1
NChains == 20

BatchSizes == {SmallBatch, LabBatch}

----------------------------------------------------------------------------
\* Matrices.
Rows(m) == Len(m)
Uniform(n, row) == [j \in 1..n |-> row]
BitRows(w) == [1..w -> {0, 1}]
OneHot(i) == [c \in 1..NLabel |-> IF c = i THEN 1 ELSE 0]
Zeros(n, w) == Uniform(n, [c \in 1..w |-> 0])
None == <<>>

IsOneHot(row) ==
    /\ \A c \in DOMAIN row : row[c] \in {0, 1}
    /\ Cardinality({c \in DOMAIN row : row[c] = 1}) = 1

\* theano_rng.binomial(size=mean.shape, n=1, p=mean): one 0/1 draw per unit.
Binomial(n, w) == {Uniform(n, r) : r \in BitRows(w)}

\* A parameter list that lost its last entry.
params_list_short == <<"W", "hbias", "vbias", "U">>

\* The parameter list the updates are built from.
params_list == <<"W", "hbias", "vbias", "U", "labbias">>
Tensors == {"W", "hbias", "vbias", "U", "labbias"}
ParamsOf(seq) == {seq[i] : i \in DOMAIN seq}

\* Shapes the constructor allocates.
Shape(p) ==
    CASE p = "W" -> <<NVisible, NHidden>>
      [] p = "hbias" -> <<NHidden>>
      [] p = "vbias" -> <<NVisible>>
      [] p = "U" -> <<NLabel, NHidden>>
      [] p = "labbias" -> <<NLabel>>

----------------------------------------------------------------------------
\* Conditional inference: pre-activation and mean as terms.
propup(vis, labm) == [op |-> "propup", a |-> vis, b |-> labm]
propdown(hid) == [op |-> "propdown", a |-> hid, b |-> None]
propdown_label(hid) == [op |-> "propdown_label", a |-> hid, b |-> None]
Mean(pre) == [op |-> "mean", of |-> pre.op, a |-> pre.a]

\* T.dot(vis, W) + hbias + T.dot(lab, U): both operands need the same rows.
PropupShapeOk(vis, labm) == Rows(vis) = Rows(labm)

\* Inverse-CDF label draw of sample_lab_given_h for one row:
\* index = numpy.min(numpy.where(numpy.less_equal(xx1[jj], xx[jj]))).
RECURSIVE CumSum(_, _)
CumSum(row, i) == IF i = 0 THEN 0 ELSE row[i] + CumSum(row, i - 1)

MinOf(S) == CHOOSE x \in S : \A y \in S : x <= y

\* The draw compared strictly with the cumulative sums.
LabelIndexStrict(probs, u) ==
    MinOf({i \in DOMAIN probs : u < CumSum(probs, i)})

LabelIndex(probs, u) ==
    MinOf({i \in DOMAIN probs : u <= CumSum(probs, i)})

\* sample_lab_given_h: batch_size = 20 rows are drawn whatever the input has;
\* row jj of the cumulative sums is read for every jj in range(20).
sample_lab_given_h(probs, xx1) ==
    IF Rows(probs) < LabBatch
    THEN [err |-> "IndexError", sample |-> None]
    ELSE [err |-> "none",
          sample |-> [jj \in 1..LabBatch |->
                        OneHot(LabelIndex(probs[jj], xx1[jj][1]))]]

----------------------------------------------------------------------------
\* The graph of the cost, as get_cost_updates builds it: <<x, y>> says that
\* node y is computed from node x.  cs and cls are the seeds of the chain.
CostEdges(cs, cls) ==
    {<<"input", "ph_sample">>, <<"input_label", "ph_sample">>,
     <<"W", "ph_sample">>, <<"hbias", "ph_sample">>, <<"U", "ph_sample">>,
     <<cs, "h0_sample">>, <<cls, "l0_sample">>,
     <<"h0_sample", "v1_sample">>, <<"W", "v1_sample">>,
     <<"vbias", "v1_sample">>,
     <<"v1_sample", "h1_sample">>, <<"l0_sample", "h1_sample">>,
     <<"W", "h1_sample">>, <<"hbias", "h1_sample">>, <<"U", "h1_sample">>,
     <<"neg_labs_theano", "l1_sample">>,
     <<"h1_sample", "h0_sample">>, <<"l1_sample", "l0_sample">>,
     <<"v1_sample", "chain_end">>, <<"l1_sample", "chain_end_labels">>,
     <<"input", "fe_data">>, <<"input_label", "fe_data">>,
     <<"W", "fe_data">>, <<"hbias", "fe_data">>, <<"U", "fe_data">>,
     <<"labbias", "fe_data">>,
     <<"chain_end", "fe_chain">>, <<"chain_end_labels", "fe_chain">>,
     <<"W", "fe_chain">>, <<"hbias", "fe_chain">>, <<"U", "fe_chain">>,
     <<"labbias", "fe_chain">>,
     <<"fe_data", "cost_generative">>, <<"fe_chain", "cost_generative">>,
     <<"pc", "y_sampled">>, <<"labbias", "y_sampled">>,
     <<"input_label", "cost_discriminative">>,
     <<"y_sampled", "cost_discriminative">>,
     <<"cost_discriminative", "cost">>, <<"cost_generative", "cost">>}

\* Nodes the Gibbs chain computes.
GibbsNodes == {"h0_sample", "l0_sample", "v1_sample", "h1_sample",
               "l1_sample", "chain_end", "chain_end_labels"}

\* A gradient taken with nothing held constant.
ConsiderConstantNone == {}

\* consider_constant of T.grad.
ConsiderConstant == {"chain_end"}

RECURSIVE Forward(_, _)
Forward(S, E) ==
    LET T == S \cup {e[2] : e \in {d \in E : d[1] \in S}}
    IN IF T = S THEN S ELSE Forward(T, E)

RECURSIVE Backward(_, _)
Backward(S, E) ==
    LET T == S \cup {e[1] : e \in {d \in E : d[2] \in S}}
    IN IF T = S THEN S ELSE Backward(T, E)

\* T.grad(cost, param, consider_constant): the nodes on a path from param to
\* cost, no gradient being passed into a node held constant.
Grad(param, E) ==
    LET open == {e \in E : e[2] \notin ConsiderConstant}
    IN Forward({param}, open) \cap Backward({"cost"}, open)

----------------------------------------------------------------------------
\* A step that couples the hidden units to the new label instead of the old.
gibbs_hvh_newlabel(h0_sample, l0_sample, v1_sample, h1_sample, l1_sample) ==
    [h0 |-> h0_sample, l0 |-> l0_sample,
     pre_sigmoid_v1 |-> propdown(h0_sample),
     v1_mean |-> Mean(propdown(h0_sample)),
     v1_sample |-> v1_sample,
     pre_sigmoid_h1 |-> propup(v1_sample, l1_sample),
     h1_mean |-> Mean(propup(v1_sample, l1_sample)),
     h1_sample |-> h1_sample,
     pre_sigmoid_l1 |-> propdown_label(h1_sample),
     l1_mean |-> Mean(propdown_label(h1_sample)),
     l1_sample |-> l1_sample]

\* One gibbs_hvh step on the drawn samples v1, h1 and the label sample l1
\* that sample_lab_given_h returned.
gibbs_hvh(h0_sample, l0_sample, v1_sample, h1_sample, l1_sample) ==
    [h0 |-> h0_sample, l0 |-> l0_sample,
     pre_sigmoid_v1 |-> propdown(h0_sample),
     v1_mean |-> Mean(propdown(h0_sample)),
     v1_sample |-> v1_sample,
     pre_sigmoid_h1 |-> propup(v1_sample, l0_sample),
     h1_mean |-> Mean(propup(v1_sample, l0_sample)),
     h1_sample |-> h1_sample,
     pre_sigmoid_l1 |-> propdown_label(h1_sample),
     l1_mean |-> Mean(propdown_label(h1_sample)),
     l1_sample |-> l1_sample]

\* A label seed that ignores the negative-label buffer.
SeedLData == input_label

\* Seeds of the chain of the running call.
SeedH == IF chain_start = "persistent" THEN persistent ELSE ph_sample
SeedL == IF chain_lab_start = "neglab" THEN neglab ELSE input_label

\* Draws of one executed gibbs_hvh step: two binomial draws of theano_rng; the
\* label sample is the shared variable made from draw xx1 when the step was
\* traced.
StepDraws(r) ==
    [r EXCEPT !.theano = r.theano + 2, !.bin_uses = r.bin_uses + 2,
              !.lab_uses = r.lab_uses + 1,
              !.lab_ids = r.lab_ids \cup {r.xx1}]

\* Inputs of the next step: the outputs_info of theano.scan.
NextH == IF steps = <<>> THEN SeedH ELSE steps[Len(steps)].h1_sample
NextL == IF steps = <<>> THEN SeedL ELSE steps[Len(steps)].l1_sample

\* The first element of a scan output instead of the last.
First(seq) == seq[1]

\* x[-1] of a scan output.
Last(seq) == seq[Len(seq)]

\* updates[param] = param - gparam * lr for every parameter of the list, all
\* right-hand sides being evaluated on the values before the call.
UpdateKeys == ParamsOf(params_list)
ApplyParams(old, keys) ==
    [p \in Tensors |->
        IF p \in keys
        THEN [n |-> old[p].n + 1, from |-> [q \in Tensors |-> old[q].n],
              shape |-> old[p].shape]
        ELSE old[p]]

ProbRows == {r \in [1..NLabel -> 0..Scale] : CumSum(r, NLabel) = Scale}
Draws == 0..(Scale - 1)

NoScore == [chain_end |-> None, chain_end_labels |-> None, y_arg |-> None,
            step |-> 0]
NoApplied == [before |-> [q \in Tensors |-> 0], keys |-> {},
              persistent_from |-> None, step |-> 0]
NoReport == [kind |-> "none", pre |-> propdown(None), step |-> 0]
NoLab == [pc |-> "off", probs |-> None, xx1 |-> None, out |-> None,
          err |-> "none"]
\* numpy: draws numpy_rng.rand has made; xx1: the draw behind neg_labs;
\* theano: draws theano_rng has made; bin_uses: binomial samples delivered;
\* lab_uses: label samples delivered to the chain; lab_ids: the draws they
\* came from.
NoRng == [numpy |-> 0, xx1 |-> 0, theano |-> 0, bin_uses |-> 0,
          lab_uses |-> 0, lab_ids |-> {}]
NoVis == [phase |-> "new", err |-> "none", chain |-> None, trace |-> <<>>]

\* The training set: minibatch index of size n, features and one-hot labels.
train_set_x(index, n) ==
    Uniform(n, [c \in 1..NVisible |-> (index \div (2 ^ (c - 1))) % 2])
train_set_y(index, n) == Uniform(n, OneHot((index % NLabel) + 1))
\* Rows of the test set the persistent visible chain starts from.
test_set_x(n) == Uniform(n, [c \in 1..NVisible |-> 1])

----------------------------------------------------------------------------
Init ==
    /\ cfg \in [persistent : BOOLEAN, neglab : BOOLEAN, k : 0..MaxK,
                batch : BatchSizes]
    /\ phase = "new"
    /\ err = "none"
    /\ chain_start = "unset"
    /\ chain_lab_start = "unset"
    /\ neg_labs = None
    /\ gparams = [p \in Tensors |-> {}]
    /\ updates = {}
    /\ monitoring_cost = "none"
    /\ params = [p \in Tensors |->
                    [n |-> 0, from |-> [q \in Tensors |-> 0],
                     shape |-> Shape(p)]]
    /\ persistent = Zeros(cfg.batch, NHidden)
    /\ neglab = Zeros(cfg.batch, NLabel)
    /\ pc = "idle"
    /\ calls = 0
    /\ input = None
    /\ input_label = None
    /\ ph_sample = None
    /\ steps = <<>>
    /\ score = NoScore
    /\ applied = NoApplied
    /\ report = NoReport
    /\ lab = NoLab
    /\ rng = NoRng
    /\ bit_i_idx = -1
    /\ vis_scan = NoVis

\* get_cost_updates: builds the graph once.  theano.scan traces gibbs_hvh, so
\* sample_lab_given_h runs here, on its own draw of numpy_rng.
GetCostUpdates ==
    /\ phase = "new"
    /\ chain_start' = IF cfg.persistent THEN "persistent" ELSE "ph_sample"
    /\ chain_lab_start' = IF cfg.neglab THEN "neglab" ELSE "input_label"
    /\ \E probs \in ProbRows, u \in Draws :
          neg_labs' = sample_lab_given_h(Uniform(LabBatch, probs),
                                         Uniform(LabBatch, <<u>>)).sample
    /\ rng' = [rng EXCEPT !.numpy = rng.numpy + 1, !.xx1 = rng.numpy + 1]
    \* bit_i_idx = theano.shared(value=0) precedes the free_energy calls
    /\ bit_i_idx' = IF cfg.persistent THEN 0 ELSE bit_i_idx
    /\ gparams' = [p \in Tensors |->
                     IF p \in UpdateKeys
                     THEN Grad(p, CostEdges(chain_start', chain_lab_start'))
                     ELSE {}]
    /\ IF cfg.persistent
       THEN IF PseudoLikelihoodFreeEnergyArgs = FreeEnergyArity
            THEN /\ updates' = UpdateKeys \cup {"persistent", "bit_i_idx"}
                 /\ monitoring_cost' = "pseudo_likelihood"
                 /\ phase' = "built"
                 /\ err' = "none"
            ELSE \* free_energy(xi) lacks lab_sample: get_cost_updates raises
                 /\ updates' = UpdateKeys \cup {"persistent"}
                 /\ monitoring_cost' = "none"
                 /\ phase' = "failed"
                 /\ err' = "TypeError"
       ELSE /\ updates' = UpdateKeys
            /\ monitoring_cost' = "reconstruction"
            /\ phase' = "built"
            /\ err' = "none"
    /\ UNCHANGED <<cfg, neglab, lab, vis_scan>>
    /\ UNCHANGED callVars

\* train_rbm(batch_index), the training loop going through the minibatches
\* in order: the minibatch is bound and the positive phase sampled.
TrainBegin ==
    /\ phase = "built"
    /\ pc \in {"idle", "done"}
    /\ calls < MaxCalls
    /\ input' = train_set_x(calls % NBatches, cfg.batch)
    /\ input_label' = train_set_y(calls % NBatches, cfg.batch)
    /\ ph_sample' \in Binomial(cfg.batch, NHidden)
    /\ steps' = <<>>
    /\ score' = NoScore
    /\ report' = NoReport
    /\ pc' = "drive"
    /\ rng' = [rng EXCEPT !.theano = rng.theano + 1,
                          !.bin_uses = rng.bin_uses + 1]
    /\ UNCHANGED <<params, persistent, calls, applied>>
    /\ UNCHANGED <<cfg, neglab, lab, bit_i_idx, vis_scan>>
    /\ UNCHANGED buildVars

\* One step of the scan over gibbs_hvh.
GibbsStep ==
    /\ pc = "drive"
    /\ Len(steps) < cfg.k
    /\ \E v1 \in Binomial(Rows(NextH), NVisible) :
          IF PropupShapeOk(v1, NextL)
          THEN /\ \E h1 \in Binomial(Rows(v1), NHidden) :
                     steps' = Append(steps,
                                     gibbs_hvh(NextH, NextL, v1, h1, neg_labs))
               /\ rng' = StepDraws(rng)
               /\ UNCHANGED <<pc, err>>
          ELSE /\ pc' = "error"
               /\ err' = "ShapeError"
               /\ UNCHANGED <<steps, rng>>
    /\ UNCHANGED <<params, persistent, calls, input, input_label, ph_sample,
                   score, applied, report>>
    /\ UNCHANGED <<cfg, neglab, lab, bit_i_idx, vis_scan>>
    /\ UNCHANGED <<phase, chain_start, chain_lab_start, neg_labs, gparams,
                   updates, monitoring_cost>>

\* The rest of the call: the cost reads the end of the chain, the update set
\* is applied at once and the monitoring cost is returned.
TrainEnd ==
    /\ pc = "drive"
    /\ Len(steps) = cfg.k
    /\ IF steps = <<>>
       THEN \* nv_samples[-1] of an empty chain
            /\ pc' = "error"
            /\ err' = "IndexError"
            /\ UNCHANGED <<params, persistent, calls, score, applied, report,
                           bit_i_idx>>
       ELSE LET chain_end == Last(steps).v1_sample
                chain_end_labels == Last(steps).l1_sample
            IN IF ~PropupShapeOk(chain_end, chain_end_labels)
               THEN \* free_energy(chain_end, chain_end_labels)
                    /\ pc' = "error"
                    /\ err' = "ShapeError"
                    /\ UNCHANGED <<params, persistent, calls, score, applied,
                                   report, bit_i_idx>>
               ELSE /\ score' = [chain_end |-> chain_end,
                                 chain_end_labels |-> chain_end_labels,
                                 y_arg |-> chain_end,
                                 step |-> Len(steps)]
                    /\ params' = ApplyParams(params, updates)
                    /\ persistent' = IF "persistent" \in updates
                                     THEN Last(steps).h1_sample
                                     ELSE persistent
                    /\ applied' = [before |-> [q \in Tensors |-> params[q].n],
                                   keys |-> updates,
                                   persistent_from |->
                                       IF "persistent" \in updates
                                       THEN Last(steps).h1_sample ELSE None,
                                   step |-> Len(steps)]
                    /\ report' = [kind |-> monitoring_cost,
                                  pre |-> Last(steps).pre_sigmoid_v1,
                                  step |-> Len(steps)]
                    /\ bit_i_idx' = IF "bit_i_idx" \in updates
                                    THEN (bit_i_idx + 1) % NVisible
                                    ELSE bit_i_idx
                    /\ calls' = calls + 1
                    /\ pc' = "done"
                    /\ UNCHANGED err
    /\ UNCHANGED <<input, input_label, ph_sample, steps>>
    /\ UNCHANGED <<cfg, neglab, lab, rng, vis_scan>>
    /\ UNCHANGED <<phase, chain_start, chain_lab_start, neg_labs, gparams,
                   updates, monitoring_cost>>

\* sample_lab_given_h on given probabilities (in units of 1/Scale) and draws.
SampleLab ==
    /\ lab.pc = "ready"
    /\ LET r == sample_lab_given_h(lab.probs, lab.xx1)
       IN lab' = [lab EXCEPT !.pc = "done", !.out = r.sample, !.err = r.err]
    /\ UNCHANGED <<cfg, neglab, rng, bit_i_idx, vis_scan>>
    /\ UNCHANGED buildVars
    /\ UNCHANGED callVars

\* After the training loop test_drbm scans rbm.gibbs_vhv from the persistent
\* visible chain; the scan traces gibbs_vhv, whose first statement calls
\* sample_h_given_v(v0_sample).
ScanGibbsVhv ==
    /\ phase = "built"
    /\ pc = "done"
    /\ calls = MaxCalls
    /\ vis_scan.phase = "new"
    /\ LET v0 == test_set_x(NChains)
           first == [fn |-> "sample_h_given_v", nargs |-> GibbsVhvSampleHArgs]
       IN IF GibbsVhvSampleHArgs = SampleHGivenVArity
          THEN vis_scan' = [phase |-> "built", err |-> "none", chain |-> v0,
                       trace |-> <<first,
                                   [fn |-> "sample_v_given_h", nargs |-> 1],
                                   [fn |-> "sample_lab_given_h", nargs |-> 1]>>]
          ELSE \* sample_h_given_v lacks l0_sample: the scan raises
               vis_scan' = [phase |-> "failed", err |-> "TypeError", chain |-> v0,
                       trace |-> <<first>>]
    /\ UNCHANGED <<cfg, neglab, lab, rng, bit_i_idx>>
    /\ UNCHANGED buildVars
    /\ UNCHANGED callVars

Next == GetCostUpdates \/ TrainBegin \/ GibbsStep \/ TrainEnd \/ ScanGibbsVhv

Spec == Init /\ [][Next]_vars

\* The label sampler alone: inputs of LabRows rows, odd and even rows drawn
\* separately.
Alternate(n, odd, even) == [j \in 1..n |-> IF j % 2 = 1 THEN odd ELSE even]
Reverse(row) == [c \in DOMAIN row |-> row[Len(row) + 1 - c]]
LabRows == {SmallBatch, LabBatch, LabBatch + 1}

InitLab ==
    /\ cfg = [persistent |-> FALSE, neglab |-> FALSE, k |-> 1,
              batch |-> LabBatch]
    /\ phase = "new"
    /\ err = "none"
    /\ chain_start = "unset"
    /\ chain_lab_start = "unset"
    /\ neg_labs = None
    /\ gparams = [p \in Tensors |-> {}]
    /\ updates = {}
    /\ monitoring_cost = "none"
    /\ params = [p \in Tensors |->
                    [n |-> 0, from |-> [q \in Tensors |-> 0],
                     shape |-> Shape(p)]]
    /\ persistent = Zeros(cfg.batch, NHidden)
    /\ neglab = Zeros(cfg.batch, NLabel)
    /\ pc = "idle"
    /\ calls = 0
    /\ input = None
    /\ input_label = None
    /\ ph_sample = None
    /\ steps = <<>>
    /\ score = NoScore
    /\ applied = NoApplied
    /\ report = NoReport
    /\ rng = NoRng
    /\ bit_i_idx = -1
    /\ vis_scan = NoVis
    /\ \E n \in LabRows, p \in ProbRows, q \in ProbRows, u1 \in Draws,
          u2 \in Draws :
          /\ q \in {p, Reverse(p)}
          /\ lab = [pc |-> "ready", probs |-> Alternate(n, p, q),
                    xx1 |-> Alternate(LabBatch, <<u1>>, <<u2>>),
                    out |-> None, err |-> "none"]

NextLab == SampleLab

SpecLab == InitLab /\ [][NextLab]_vars

----------------------------------------------------------------------------
\* Properties.

Columns(m) == {Len(m[j]) : j \in DOMAIN m}

\* C1: in PCD mode get_cost_updates yields an Updater, and after every call
\* of it the persistent buffer holds the hidden sample of the last gibbs_hvh
\* step of that call.
C1_PersistentHoldsTerminal ==
    (cfg.persistent /\ phase # "new") =>
        /\ phase = "built"
        /\ (pc = "done" => persistent = Last(steps).h1_sample)

\* C2: the hidden seed of the chain is the positive-phase sample when no
\* persistent buffer is given; with a buffer, calls are seeded from the buffer,
\* which holds the terminal hidden state of the call before (its initial
\* contents before the first call).
C2_SeedSelection ==
    /\ (cfg.persistent /\ phase # "new") => phase = "built"
    /\ (pc = "drive" /\ steps # <<>>) =>
          steps[1].h0 = (IF cfg.persistent THEN persistent ELSE ph_sample)
    /\ (cfg.persistent /\ pc = "done") => persistent = Last(steps).h1_sample

\* C3: a call with k = 0 completes without error and its terminal hidden and
\* label state are the seeds.
C3_ZeroStepsIdentity ==
    (cfg.k = 0 /\ pc \in {"done", "error"}) =>
        /\ pc = "done"
        /\ err = "none"
        /\ NextH = SeedH
        /\ NextL = SeedL

C5_LabelBatchMatches ==
    \A i \in DOMAIN steps :
        /\ Rows(steps[i].l1_sample) = Rows(steps[i].h1_sample)
        /\ Columns(steps[i].l1_sample) = {NLabel}

\* C6: with a persistent buffer the monitoring value is the pseudo-likelihood
\* cost and the call reporting it succeeds; without one it is the
\* reconstruction cost of the last step's visible pre-activation.
C6_MonitoringSelection ==
    /\ phase # "new" =>
          /\ phase = "built"
          /\ monitoring_cost =
                (IF cfg.persistent THEN "pseudo_likelihood"
                                   ELSE "reconstruction")
    /\ pc = "done" =>
          /\ report.kind = monitoring_cost
          /\ (~cfg.persistent =>
                 report.pre = steps[Len(steps)].pre_sigmoid_v1)

\* C7: a completed call has replaced each of the five tensors exactly once,
\* every new value being computed from the values at the start of the call,
\* and has kept every shape.
C7_ApplyAll ==
    pc = "done" =>
        \A p \in Tensors :
            /\ p \in applied.keys
            /\ params[p].n = applied.before[p] + 1
            /\ params[p].n = calls
            /\ params[p].from = applied.before
            /\ params[p].shape = Shape(p)

C7_Witness ==
    /\ pc = "done"
    /\ calls = 2
    /\ params["labbias"].n = 2
    /\ params["labbias"].from["W"] = 1

\* C8: no parameter's gradient flows through a node of the Gibbs chain.
C8_NoGradientThroughChain ==
    phase # "new" =>
        \A p \in Tensors : gparams[p] \cap GibbsNodes = {}

C8_Witness ==
    /\ pc = "done"
    /\ cfg.k >= 1
    /\ "fe_chain" \in gparams["W"]
    /\ score.chain_end = steps[Len(steps)].v1_sample

C10_ChainDrive ==
    /\ Len(steps) <= cfg.k
    /\ (pc = "drive" /\ steps # <<>>) =>
          /\ steps[1].h0 = SeedH
          /\ steps[1].l0 = SeedL
    /\ \A i \in 1..(Len(steps) - 1) :
          /\ steps[i + 1].h0 = steps[i].h1_sample
          /\ steps[i + 1].l0 = steps[i].l1_sample
    /\ pc = "done" =>
          /\ Len(steps) = cfg.k
          /\ cfg.k >= 1
          /\ score.chain_end = steps[cfg.k].v1_sample
          /\ score.chain_end_labels = steps[cfg.k].l1_sample
          /\ report.pre = steps[cfg.k].pre_sigmoid_v1
          /\ ("persistent" \in applied.keys =>
                 applied.persistent_from = steps[cfg.k].h1_sample)

\* C10 witness: a two-step call whose steps differ.
C10_Witness ==
    /\ pc = "done"
    /\ cfg.k = 2
    /\ steps[1].v1_sample # steps[2].v1_sample
    /\ steps[1].h1_sample # steps[2].h1_sample
    /\ steps[2].h0 = steps[1].h1_sample

\* C11: every sample delivered by a conditional sampler rests on a draw of
\* its own: the binomial samples on one draw of theano_rng each, the label
\* samples of the steps and calls on pairwise different draws of numpy_rng.
C11_FreshDraws ==
    /\ rng.theano = rng.bin_uses
    /\ Cardinality(rng.lab_ids) = rng.lab_uses

\* C12: the label prediction of the discriminative cost is sample_y_given_x
\* of the minibatch's visible data.
C12_PredictionOnData ==
    pc = "done" => score.y_arg = input

\* C13: in PCD mode the flip index starts at 0, its advance by 1 modulo
\* n_visible is part of the update set of every call, and it stays within
\* 0 .. n_visible - 1.
C13_RotatingIndex ==
    (cfg.persistent /\ phase # "new") =>
        /\ "bit_i_idx" \in updates
        /\ bit_i_idx = calls % NVisible
        /\ bit_i_idx >= 0
        /\ bit_i_idx < NVisible

\* C14: a scanned gibbs_vhv step samples hidden from the visible input, then
\* visible and label from that hidden sample.
C14_VhvStep ==
    vis_scan.phase # "new" =>
        /\ vis_scan.phase = "built"
        /\ vis_scan.err = "none"
        /\ Len(vis_scan.trace) = 3
        /\ vis_scan.trace[1].fn = "sample_h_given_v"
        /\ vis_scan.trace[2].fn = "sample_v_given_h"
        /\ vis_scan.trace[3].fn = "sample_lab_given_h"

\* C15: the label seed of every call is the minibatch's label when no
\* negative-label buffer is given and the buffer's initial contents
\* otherwise; the buffer is no key of the update set and never changes.
C15_LabelSeed ==
    /\ neglab = Zeros(cfg.batch, NLabel)
    /\ "neglab" \notin updates
    /\ steps # <<>> =>
          steps[1].l0 = (IF cfg.neglab THEN Zeros(cfg.batch, NLabel)
                                       ELSE input_label)

\* C15 witness: a second call seeded from the buffer, whose contents differ
\* from the minibatch's label and from the label sample the call before
\* ended on.
C15_Witness ==
    /\ cfg.neglab
    /\ calls >= 1
    /\ pc = "drive"
    /\ steps # <<>>
    /\ steps[1].l0 = neglab
    /\ steps[1].l0 # input_label
    /\ neg_labs # neglab

====
